---- MODULE Spec2Model ----
(***************************************************************************)
(* Model of the MKSServo42C host-side driver                               *)
(* (src/mksservo42c_10/mksservo42c.py).                                    *)
(*                                                                         *)
(* The driver owns one pyserial port object (self._ser) and a device       *)
(* address.  Every public method builds a frame, hands it to               *)
(* self._ser.write and then blocks in self._ser.read(n).  The model keeps  *)
(* the link's fields, the port's open flag, the position of the single     *)
(* calling thread (idle, or blocked in the read of the call in progress),  *)
(* the transport calls issued by the call in progress, the bytes the read  *)
(* returned and the way the call ended.                                    *)
(*                                                                         *)
(* The methods take no lock, so threads that share one object can each be  *)
(* anywhere in a method; thread, tx and rx keep what SpecConc needs for    *)
(* that: each thread's position, the frames on their way to the device     *)
(* and the bytes waiting in the port's input buffer, every frame and byte  *)
(* marked with the thread whose call it belongs to.                        *)
(*                                                                         *)
(* Python integers are unbounded while TLC's are 32 bits wide, so a value  *)
(* returned by int.from_bytes is kept as two limbs: the integer            *)
(* hi * 65536 + lo with 0 <= lo < 65536 (hi is negative for a negative     *)
(* value).                                                                 *)
(***************************************************************************)
EXTENDS Integers, Sequences, FiniteSets, TLC

VARIABLES
    obj,        \* "unborn" before __init__, "live" once it returned, "failed" if it raised
    self,       \* the fields of the MKSServo42C object
    ser,        \* self._ser, the pyserial port object: [is_open]
    pc,         \* "idle", or "read": the caller is blocked in self._ser.read(n)
    call,       \* the method call in progress or last made, with its arguments
    io,         \* the transport calls issued by that call, in order
    response,   \* the bytes self._ser.read returned to that call
    outcome,    \* how that call ended: returned value or exception
    prev,       \* the method called before it ("none" if there was none)
    thread,     \* threads sharing the object: each one's position, call, bytes read, result
    tx,         \* frames written by those threads that the device has not answered yet
    rx          \* the port's input buffer: bytes received and not yet read

vars == <<obj, self, ser, pc, call, io, response, outcome, prev, thread, tx, rx>>

----------------------------------------------------------------------------
(* Opcodes, the class attributes of lines 11-40.                           *)

READ_ENCODER_VALUE == 48
READ_NUMBER_OF_PULSES_RECEIVED == 51
READ_MOTOR_SHAFT_ANGLE == 54
READ_MOTOR_SHAFT_ERROR_ANGLE == 57
READ_MOTOR_SHAFT_STATUS == 62
WRITE_SET_SUBDIVISON == 132
WRITE_SET_ACTIVE_EN_PIN == 133
WRITE_SET_EN_PIN_STATUS == 243
WRITE_RUN_CONSTANT_SPEED == 246
WRITE_STOP_MOTOR == 247
WRITE_RUN_MOTOR_TO_POSITION == 253

----------------------------------------------------------------------------
(* The inputs the model draws from.                                        *)

\* port=None is the one port value for which serial.Serial() does not open.
PortNone == "None"
Ports == {"/dev/ttyUSB0", PortNone}
Addresses == {224, 225}                   \* 0xE0 (the default), 0xE1
Directions == {"CW", "CCW", "UP"}
Speeds == {0, 112, 127, 256}              \* 0, 0x70, 0x7F; 256 overflows a byte
Positions == {128, 4660, 65536}           \* 0x0080, 0x1234; 65536 overflows two bytes
ByteArgs == {8, 255, 256}                 \* subdivision / status / active; 256 overflows
EchoBytes == {0, 224}                     \* values of byte 0 of a reply
PayloadBytes == {0, 127, 240, 255}        \* values of the later bytes of a reply

----------------------------------------------------------------------------
(* Python primitives.                                                      *)

RECURSIVE Pow256(_)
Pow256(n) == IF n = 0 THEN 1 ELSE 256 * Pow256(n - 1)

\* int.to_bytes(n, 'big') raises OverflowError unless 0 <= v < 256^n.
CanToBytes(v, n) == v >= 0 /\ v < Pow256(n)

\* Mutant: the bytes least significant first (byteorder 'little').
ToBytes_little(v, n) == [i \in 1..n |-> (v \div Pow256(i - 1)) % 256]

\* int.to_bytes(n, 'big'): most significant byte first.
ToBytes(v, n) == [i \in 1..n |-> (v \div Pow256(n - i)) % 256]

\* b''.join(list of bytes objects)
RECURSIVE Join(_)
Join(parts) == IF parts = <<>> THEN <<>> ELSE Head(parts) \o Join(Tail(parts))

RECURSIVE SumBytes(_)
SumBytes(bs) == IF bs = <<>> THEN 0 ELSE Head(bs) + SumBytes(Tail(bs))

\* speed | 0x80 on a non-negative int
Or80(speed) == IF (speed \div 128) % 2 = 1 THEN speed ELSE speed + 128

\* bytes slicing b[lo:hi] with 0-based lo, exclusive hi, clipped to the length.
Slice(bs, lo, hi) == SubSeq(bs, lo + 1, IF hi < Len(bs) THEN hi ELSE Len(bs))

RECURSIVE Unsigned(_)
Unsigned(bs) == IF bs = <<>> THEN 0 ELSE Unsigned(SubSeq(bs, 1, Len(bs) - 1)) * 256 + bs[Len(bs)]

\* Mutant: the signed flag is dropped, every value is read as unsigned.
IntFromBytes_unsigned(bs, signed) ==
    LET n == Len(bs)
    IN  [hi |-> IF n > 2 THEN Unsigned(SubSeq(bs, 1, n - 2)) ELSE 0,
         lo |-> IF n > 2 THEN Unsigned(SubSeq(bs, n - 1, n)) ELSE Unsigned(bs)]

\* int.from_bytes(bs, byteorder='big', signed=...), for at most 4 bytes, as limbs.
IntFromBytes(bs, signed) ==
    LET n == Len(bs)
        uhi == IF n > 2 THEN Unsigned(SubSeq(bs, 1, n - 2)) ELSE 0
        ulo == IF n > 2 THEN Unsigned(SubSeq(bs, n - 1, n)) ELSE Unsigned(bs)
        neg == signed /\ n > 0 /\ bs[1] >= 128
    IN  IF ~neg THEN [hi |-> uhi, lo |-> ulo]
        ELSE IF n >= 2 THEN [hi |-> uhi - Pow256(n - 2), lo |-> ulo]
        ELSE [hi |-> -1, lo |-> ulo - 256 + 65536]

----------------------------------------------------------------------------
(* Values of the model.                                                    *)

NoCall == [op |-> "none", dir |-> "", speed |-> 0, position |-> 0, arg |-> 0]
Call(op) == [NoCall EXCEPT !.op = op]

\* How a call ended.  kind is "pending" while the caller is blocked in the
\* read, "None" for a method that returns nothing, "int" for a returned
\* integer hi * 65536 + lo, else the name of the exception that propagated.
Pending == [kind |-> "pending", hi |-> 0, lo |-> 0]
ReturnNone == [kind |-> "None", hi |-> 0, lo |-> 0]
ReturnInt(v) == [kind |-> "int", hi |-> v.hi, lo |-> v.lo]
Raised(exc) == [kind |-> exc, hi |-> 0, lo |-> 0]

\* One call on self._ser: a write of data, or a read asking for size bytes;
\* open is the port's is_open at the time of the call.
WriteCall(data, open) == [kind |-> "write", data |-> data, size |-> Len(data), open |-> open]
ReadCall(n, open) == [kind |-> "read", data |-> <<>>, size |-> n, open |-> open]

\* Sequences of length at most n: what a read of n bytes can return within
\* the timeout (nothing, a truncated reply, or the whole reply).
RECURSIVE Payloads(_)
Payloads(n) == IF n = 0 THEN {<<>>}
               ELSE Payloads(n - 1) \cup
                    {Append(p, b) : p \in {q \in Payloads(n - 1) : Len(q) = n - 1}, b \in PayloadBytes}
Replies(n) == {<<>>} \cup {<<e>> \o p : e \in EchoBytes, p \in Payloads(n - 1)}

\* The threads that call methods of one shared object, and the number of
\* calls each makes.
Threads == {1, 2}
MaxCallsPerThread == 2

\* A thread that has called nothing yet.  calls counts its calls; response
\* holds the bytes its read returned, each with the thread and call whose
\* frame the device sent it in answer to.
NoThreadCall == [pc |-> "idle", call |-> NoCall, calls |-> 0,
                 response |-> <<>>, outcome |-> ReturnNone]

----------------------------------------------------------------------------
(* calculate_checksum, lines 103-105.                                      *)

calculate_checksum(data) == SumBytes(Join(data)) % 256

----------------------------------------------------------------------------
(* The frame each method builds (its commandpacket, joined), and whether   *)
(* building it raises.  c is the call with its arguments.                  *)

read_motor_shaft_status_packet(address) ==
    Join(<<ToBytes(address, 1), ToBytes(READ_MOTOR_SHAFT_STATUS, 1)>>)

read_motor_shaft_angle_packet(address) ==
    Join(<<ToBytes(address, 1), ToBytes(READ_MOTOR_SHAFT_ANGLE, 1)>>)

read_motor_shaft_error_angle_packet(address) ==
    Join(<<ToBytes(address, 1), ToBytes(READ_MOTOR_SHAFT_ERROR_ANGLE, 1)>>)

read_pulses_received_packet(address) ==
    Join(<<ToBytes(address, 1), ToBytes(READ_NUMBER_OF_PULSES_RECEIVED, 1)>>)

get_encoder_value_packet(address) ==
    Join(<<ToBytes(address, 1), ToBytes(READ_ENCODER_VALUE, 1)>>)

set_subdivision_packet(address, subdivision) ==
    Join(<<ToBytes(address, 1), ToBytes(WRITE_SET_SUBDIVISON, 1), ToBytes(subdivision, 1)>>)

\* The direction branch of move_to (lines 307-312): the speed with its
\* direction bit; the else branch raises ValueError.
\* Mutant: the else branch that raises is missing.
move_to_direction_any(dir) == TRUE

move_to_direction_ok(dir) == dir = "CCW" \/ dir = "CW"
move_to_speed(dir, speed) == IF dir = "CCW" THEN speed ELSE Or80(speed)

move_to_packet(address, speed, position) ==
    Join(<<ToBytes(address, 1), ToBytes(WRITE_RUN_MOTOR_TO_POSITION, 1),
           ToBytes(speed, 1), ToBytes(position, 2)>>)

\* The direction branch of move (lines 347-352).
move_direction_ok(direction) == direction = "CCW" \/ direction = "CW"
\* Mutant: the two branches are swapped.
move_speed_swapped(direction, speed) == IF direction = "CW" THEN speed ELSE Or80(speed)

move_speed(direction, speed) == IF direction = "CCW" THEN speed ELSE Or80(speed)

move_packet(address, speed) ==
    Join(<<ToBytes(address, 1), ToBytes(WRITE_RUN_CONSTANT_SPEED, 1), ToBytes(speed, 1)>>)

stop_packet(address) ==
    Join(<<ToBytes(address, 1), ToBytes(WRITE_STOP_MOTOR, 1)>>)

set_en_pin_status_packet(address, status) ==
    Join(<<ToBytes(address, 1), ToBytes(WRITE_SET_EN_PIN_STATUS, 1), ToBytes(status, 1)>>)

\* set_active_of_en_pin is the one method whose checksum lines are live.
set_active_of_en_pin_packet(address, active) ==
    LET commandpacket == <<ToBytes(address, 1), ToBytes(WRITE_SET_ACTIVE_EN_PIN, 1),
                           ToBytes(active, 1)>>
        checksum == calculate_checksum(commandpacket)
    IN  Join(Append(commandpacket, ToBytes(checksum, 1)))

----------------------------------------------------------------------------
(* The byte count each method passes to self._ser.read, and what it makes  *)
(* of the bytes it gets.                                                   *)

\* Mutant: every method reads the two bytes that most of them read.
ReadSize_two(op) == 2

ReadSize(op) ==
    CASE op = "read_motor_shaft_status" -> 2
      [] op = "read_motor_shaft_angle" -> 5
      [] op = "read_motor_shaft_error_angle" -> 3
      [] op = "read_pulses_received" -> 5
      [] op = "get_encoder_value" -> 3
      [] op = "set_subdivision" -> 2
      [] op = "move_to" -> 2
      [] op = "move" -> 2
      [] op = "stop" -> 2
      [] op = "set_en_pin_status" -> 3
      [] op = "set_active_of_en_pin" -> 3

\* return response[1]: IndexError when fewer than two bytes came.
read_motor_shaft_status_return(r) ==
    IF Len(r) < 2 THEN Raised("IndexError") ELSE ReturnInt([hi |-> 0, lo |-> r[2]])

read_motor_shaft_angle_return(r) == ReturnInt(IntFromBytes(Slice(r, 1, 5), FALSE))

read_motor_shaft_error_angle_return(r) == ReturnInt(IntFromBytes(Slice(r, 1, 3), TRUE))

read_pulses_received_return(r) == ReturnInt(IntFromBytes(Slice(r, 1, 5), TRUE))

Return(op, r) ==
    CASE op = "read_motor_shaft_status" -> read_motor_shaft_status_return(r)
      [] op = "read_motor_shaft_angle" -> read_motor_shaft_angle_return(r)
      [] op = "read_motor_shaft_error_angle" -> read_motor_shaft_error_angle_return(r)
      [] op = "read_pulses_received" -> read_pulses_received_return(r)
      [] OTHER -> ReturnNone

----------------------------------------------------------------------------
(* The transport, as pyserial behaves: a port object made with a port name *)
(* is opened by its constructor, one made with port=None is left closed;   *)
(* open() raises SerialException when the device cannot be opened (always, *)
(* with no port configured); write and read raise PortNotOpenError on a    *)
(* closed port; read(n) returns at most n bytes.                           *)

\* A call starts: it replaces the record of the call before it.
Begin(c) ==
    /\ obj = "live"
    /\ pc = "idle"
    /\ call' = c
    /\ prev' = call.op
    /\ response' = <<>>
    /\ UNCHANGED <<thread, tx, rx>>

\* The call raises before it reaches the transport.
Raise(exc) ==
    /\ io' = <<>>
    /\ pc' = "idle"
    /\ outcome' = Raised(exc)

\* self._ser.write(packet_bytes): the whole frame in one call.  On an open
\* port the method goes on to its read; on a closed one write raises and the
\* exception propagates out of the method.
ser_write(packet_bytes) ==
    /\ io' = <<WriteCall(packet_bytes, ser.is_open)>>
    /\ IF ser.is_open
       THEN pc' = "read" /\ outcome' = Pending
       ELSE pc' = "idle" /\ outcome' = Raised("PortNotOpenError")

\* Mutant: a short reply makes the method send its frame and read again.
ser_read_retry ==
    /\ obj = "live"
    /\ pc = "read"
    /\ \E r \in Replies(ReadSize(call.op)) :
          /\ io' = IF Len(r) < ReadSize(call.op)
                   THEN io \o <<ReadCall(ReadSize(call.op), ser.is_open), io[1],
                                ReadCall(ReadSize(call.op), ser.is_open)>>
                   ELSE Append(io, ReadCall(ReadSize(call.op), ser.is_open))
          /\ response' = r
          /\ outcome' = Return(call.op, r)
    /\ pc' = "idle"
    /\ UNCHANGED <<obj, self, ser, call, prev, thread, tx, rx>>

\* response = self._ser.read(n), then the rest of the method: the read
\* returns whatever arrived within the timeout and the method returns.
ser_read ==
    /\ obj = "live"
    /\ pc = "read"
    /\ \E r \in Replies(ReadSize(call.op)) :
          /\ io' = Append(io, ReadCall(ReadSize(call.op), ser.is_open))
          /\ response' = r
          /\ outcome' = Return(call.op, r)
    /\ pc' = "idle"
    /\ UNCHANGED <<obj, self, ser, call, prev, thread, tx, rx>>

----------------------------------------------------------------------------
(* The public methods, each up to its blocking read.                       *)

read_motor_shaft_status ==
    /\ Begin(Call("read_motor_shaft_status"))
    /\ IF CanToBytes(self.address, 1)
       THEN ser_write(read_motor_shaft_status_packet(self.address))
       ELSE Raise("OverflowError")
    /\ UNCHANGED <<obj, self, ser>>

read_motor_shaft_angle ==
    /\ Begin(Call("read_motor_shaft_angle"))
    /\ IF CanToBytes(self.address, 1)
       THEN ser_write(read_motor_shaft_angle_packet(self.address))
       ELSE Raise("OverflowError")
    /\ UNCHANGED <<obj, self, ser>>

read_motor_shaft_error_angle ==
    /\ Begin(Call("read_motor_shaft_error_angle"))
    /\ IF CanToBytes(self.address, 1)
       THEN ser_write(read_motor_shaft_error_angle_packet(self.address))
       ELSE Raise("OverflowError")
    /\ UNCHANGED <<obj, self, ser>>

read_pulses_received ==
    /\ Begin(Call("read_pulses_received"))
    /\ IF CanToBytes(self.address, 1)
       THEN ser_write(read_pulses_received_packet(self.address))
       ELSE Raise("OverflowError")
    /\ UNCHANGED <<obj, self, ser>>

get_encoder_value ==
    /\ Begin(Call("get_encoder_value"))
    /\ IF CanToBytes(self.address, 1)
       THEN ser_write(get_encoder_value_packet(self.address))
       ELSE Raise("OverflowError")
    /\ UNCHANGED <<obj, self, ser>>

set_subdivision ==
    \E subdivision \in ByteArgs :
       /\ Begin([Call("set_subdivision") EXCEPT !.arg = subdivision])
       /\ IF CanToBytes(self.address, 1) /\ CanToBytes(subdivision, 1)
          THEN ser_write(set_subdivision_packet(self.address, subdivision))
          ELSE Raise("OverflowError")
       /\ UNCHANGED <<obj, self, ser>>

move_to ==
    \E dir \in Directions, speed \in Speeds, position \in Positions :
       /\ Begin([Call("move_to") EXCEPT !.dir = dir, !.speed = speed, !.position = position])
       /\ IF ~move_to_direction_ok(dir)
          THEN Raise("ValueError")
          ELSE IF /\ CanToBytes(move_to_speed(dir, speed), 1)
                  /\ CanToBytes(self.address, 1)
                  /\ CanToBytes(position, 2)
               THEN ser_write(move_to_packet(self.address, move_to_speed(dir, speed), position))
               ELSE Raise("OverflowError")
       /\ UNCHANGED <<obj, self, ser>>

move ==
    \E direction \in Directions, speed \in Speeds :
       /\ Begin([Call("move") EXCEPT !.dir = direction, !.speed = speed])
       /\ IF ~move_direction_ok(direction)
          THEN Raise("ValueError")
          ELSE IF /\ CanToBytes(self.address, 1)
                  /\ CanToBytes(move_speed(direction, speed), 1)
               THEN ser_write(move_packet(self.address, move_speed(direction, speed)))
               ELSE Raise("OverflowError")
       /\ UNCHANGED <<obj, self, ser>>

\* Mutant: stop closes the port once the frame is sent.
stop_disconnects ==
    /\ Begin(Call("stop"))
    /\ IF CanToBytes(self.address, 1)
       THEN ser_write(stop_packet(self.address))
       ELSE Raise("OverflowError")
    /\ ser' = [is_open |-> FALSE]
    /\ UNCHANGED <<obj, self>>

\* stop also flushes the port and sleeps 50 ms between its write and its
\* read; neither touches the state kept here.
stop ==
    /\ Begin(Call("stop"))
    /\ IF CanToBytes(self.address, 1)
       THEN ser_write(stop_packet(self.address))
       ELSE Raise("OverflowError")
    /\ UNCHANGED <<obj, self, ser>>

set_en_pin_status ==
    \E status \in ByteArgs :
       /\ Begin([Call("set_en_pin_status") EXCEPT !.arg = status])
       /\ IF CanToBytes(self.address, 1) /\ CanToBytes(status, 1)
          THEN ser_write(set_en_pin_status_packet(self.address, status))
          ELSE Raise("OverflowError")
       /\ UNCHANGED <<obj, self, ser>>

set_active_of_en_pin ==
    \E active \in ByteArgs :
       /\ Begin([Call("set_active_of_en_pin") EXCEPT !.arg = active])
       /\ IF CanToBytes(self.address, 1) /\ CanToBytes(active, 1)
          THEN ser_write(set_active_of_en_pin_packet(self.address, active))
          ELSE Raise("OverflowError")
       /\ UNCHANGED <<obj, self, ser>>

----------------------------------------------------------------------------
(* Construction, connect and disconnect.                                   *)

Baudrates == {9600}
Timeouts == {1}

Fields(port, baudrate, timeout, address) ==
    [port |-> port, address |-> address, baudrate |-> baudrate, timeout |-> timeout,
     position |-> -1, acceleration |-> 0, speed |-> 0]

NoFields == Fields("", 0, 0, 0)

\* self._ser.open() inside connect's try: openable says whether the device
\* can be opened now.  A SerialException is printed and swallowed, leaving
\* the port closed.
connect_port(s, port, openable) ==
    IF s.is_open THEN s
    ELSE IF port # PortNone /\ openable THEN [is_open |-> TRUE]
    ELSE s

\* __init__: the fields, then serial.Serial(port=..., ...), which opens a
\* named port at once (its SerialException is not caught and construction
\* fails) and leaves the port closed for port=None, then self.connect().
init ==
    /\ obj = "unborn"
    /\ \E port \in Ports, baudrate \in Baudrates, timeout \in Timeouts,
          address \in Addresses, openable \in BOOLEAN :
          /\ self' = Fields(port, baudrate, timeout, address)
          /\ IF port # PortNone /\ ~openable
             THEN /\ obj' = "failed"
                  /\ ser' = [is_open |-> FALSE]
                  /\ outcome' = Raised("SerialException")
             ELSE /\ obj' = "live"
                  /\ ser' = connect_port([is_open |-> port # PortNone], port, openable)
                  /\ outcome' = ReturnNone
    /\ UNCHANGED <<pc, call, io, response, prev, thread, tx, rx>>

connect ==
    /\ obj = "live"
    /\ pc = "idle"
    /\ \E openable \in BOOLEAN : ser' = connect_port(ser, self.port, openable)
    /\ UNCHANGED <<obj, self, pc, call, io, response, outcome, prev, thread, tx, rx>>

disconnect ==
    /\ obj = "live"
    /\ pc = "idle"
    /\ ser' = IF ser.is_open THEN [is_open |-> FALSE] ELSE ser
    /\ UNCHANGED <<obj, self, pc, call, io, response, outcome, prev, thread, tx, rx>>

----------------------------------------------------------------------------
(* Threads sharing one object.  No method takes a lock, and a thread can   *)
(* be descheduled between its self._ser.write and its self._ser.read (both *)
(* release the interpreter lock while they block), so the steps of two     *)
(* calls interleave freely.                                                *)

\* The calls the threads make.
ThreadCalls ==
    {Call("read_pulses_received"),
     [Call("move") EXCEPT !.dir = "CW", !.speed = 112],
     Call("stop")}

\* The values the device fills the payload of a reply with.
DeviceBytes == {0, 255}

\* packet_bytes of the call c, as its method builds it.
packet_bytes(c, address) ==
    CASE c.op = "read_motor_shaft_status" -> read_motor_shaft_status_packet(address)
      [] c.op = "read_motor_shaft_angle" -> read_motor_shaft_angle_packet(address)
      [] c.op = "read_motor_shaft_error_angle" -> read_motor_shaft_error_angle_packet(address)
      [] c.op = "read_pulses_received" -> read_pulses_received_packet(address)
      [] c.op = "get_encoder_value" -> get_encoder_value_packet(address)
      [] c.op = "set_subdivision" -> set_subdivision_packet(address, c.arg)
      [] c.op = "move_to" ->
            move_to_packet(address, move_to_speed(c.dir, c.speed), c.position)
      [] c.op = "move" -> move_packet(address, move_speed(c.dir, c.speed))
      [] c.op = "stop" -> stop_packet(address)
      [] c.op = "set_en_pin_status" -> set_en_pin_status_packet(address, c.arg)
      [] c.op = "set_active_of_en_pin" -> set_active_of_en_pin_packet(address, c.arg)

\* The bytes of a buffer entry sequence, without their marks.
Bytes(entries) == [i \in DOMAIN entries |-> entries[i].byte]

\* Thread t enters a method and runs it through self._ser.write: the frame
\* goes out at once, whatever the other threads are doing.
thread_write(t) ==
    /\ obj = "live"
    /\ thread[t].pc = "idle"
    /\ thread[t].calls < MaxCallsPerThread
    /\ \E c \in ThreadCalls :
          IF ser.is_open
          THEN /\ thread' = [thread EXCEPT ![t] =
                                [pc |-> "read", call |-> c, calls |-> @.calls + 1,
                                 response |-> <<>>, outcome |-> Pending]]
               /\ tx' = Append(tx, [thread |-> t, call |-> thread[t].calls + 1,
                                     op |-> c.op, data |-> packet_bytes(c, self.address)])
          ELSE /\ thread' = [thread EXCEPT ![t] =
                                [pc |-> "idle", call |-> c, calls |-> @.calls + 1,
                                 response |-> <<>>,
                                 outcome |-> Raised("PortNotOpenError")]]
               /\ tx' = tx
    /\ UNCHANGED <<obj, self, ser, pc, call, io, response, outcome, prev, rx>>

\* The device answers the oldest frame it has not answered: a reply of the
\* length the frame's method asks for, its first byte the address, which
\* lands in the port's input buffer.
device_reply ==
    /\ tx # <<>>
    /\ LET f == Head(tx)
       IN  \E b \in DeviceBytes :
              rx' = rx \o [i \in 1..ReadSize(f.op) |->
                             [byte |-> IF i = 1 THEN f.data[1] ELSE b,
                              thread |-> f.thread, call |-> f.call]]
    /\ tx' = Tail(tx)
    /\ UNCHANGED <<obj, self, ser, pc, call, io, response, outcome, prev, thread>>

\* response = self._ser.read(n) in thread t, and the rest of its method: the
\* read takes the first n bytes of the input buffer, or all of it if the
\* timeout ends the wait before n bytes have come.
thread_read(t) ==
    /\ obj = "live"
    /\ thread[t].pc = "read"
    /\ LET n == ReadSize(thread[t].call.op)
           k == IF Len(rx) < n THEN Len(rx) ELSE n
       IN  /\ thread' = [thread EXCEPT ![t] =
                            [@ EXCEPT !.pc = "idle",
                                      !.response = SubSeq(rx, 1, k),
                                      !.outcome = Return(thread[t].call.op,
                                                         Bytes(SubSeq(rx, 1, k)))]]
           /\ rx' = SubSeq(rx, k + 1, Len(rx))
    /\ UNCHANGED <<obj, self, ser, pc, call, io, response, outcome, prev, tx>>

----------------------------------------------------------------------------
(* Specifications.                                                         *)

NoHistory ==
    /\ pc = "idle"
    /\ call = NoCall
    /\ io = <<>>
    /\ response = <<>>
    /\ prev = "none"
    /\ thread = [t \in Threads |-> NoThreadCall]
    /\ tx = <<>>
    /\ rx = <<>>

\* Spec: a session of commands on a link whose construction opened its port.
Init ==
    /\ obj = "live"
    /\ \E port \in Ports \ {PortNone}, baudrate \in Baudrates, timeout \in Timeouts,
          address \in Addresses :
          self = Fields(port, baudrate, timeout, address)
    /\ ser = [is_open |-> TRUE]
    /\ outcome = ReturnNone
    /\ NoHistory

Next ==
    \/ read_motor_shaft_status
    \/ read_motor_shaft_angle
    \/ read_motor_shaft_error_angle
    \/ read_pulses_received
    \/ get_encoder_value
    \/ set_subdivision
    \/ move_to
    \/ move
    \/ stop
    \/ set_en_pin_status
    \/ set_active_of_en_pin
    \/ ser_read

Spec == Init /\ [][Next]_vars

\* SpecLife: the whole life of a link, from before __init__, with connect
\* and disconnect between the commands.
InitLife ==
    /\ obj = "unborn"
    /\ self = NoFields
    /\ ser = [is_open |-> FALSE]
    /\ outcome = ReturnNone
    /\ NoHistory

NextLife ==
    \/ init
    \/ connect
    \/ disconnect
    \/ read_motor_shaft_status
    \/ read_motor_shaft_angle
    \/ read_motor_shaft_error_angle
    \/ read_pulses_received
    \/ get_encoder_value
    \/ set_subdivision
    \/ move_to
    \/ move
    \/ stop
    \/ set_en_pin_status
    \/ set_active_of_en_pin
    \/ ser_read

SpecLife == InitLife /\ [][NextLife]_vars

\* SpecConc: two threads calling methods of one link whose port is open.
NextConc ==
    \/ \E t \in Threads : thread_write(t)
    \/ \E t \in Threads : thread_read(t)
    \/ device_reply

SpecConc == Init /\ [][NextConc]_vars

----------------------------------------------------------------------------
(* Properties.                                                             *)

\* The last call has returned or raised.
Done == pc = "idle" /\ call.op # "none"

MoveOps == {"move", "move_to"}
ReadOps == {"read_pulses_received", "read_motor_shaft_angle",
            "read_motor_shaft_error_angle", "read_motor_shaft_status"}
ArgOps == {"set_subdivision", "set_en_pin_status", "set_active_of_en_pin"}

\* The call's arguments are ones the method accepts: a direction of CW or
\* CCW, and integers that fit their fields.
ArgumentsValid ==
    /\ call.op \in MoveOps => call.dir \in {"CW", "CCW"} /\ call.speed \in 0..255
    /\ call.op = "move_to" => call.position \in 0..65535
    /\ call.op \in ArgOps => call.arg \in 0..255

\* The transport calls of the given kind among those of the last call.
IoOfKind(kind) == {i \in DOMAIN io : io[i].kind = kind}

(* C1: move and move_to with a direction other than CW or CCW raise        *)
(* ValueError, whatever the speed and position, and the call makes no      *)
(* write and no read on the transport.                                     *)
C1_InvalidDirectionRejected ==
    (call.op \in MoveOps /\ call.dir \notin {"CW", "CCW"}) =>
        /\ pc = "idle"
        /\ outcome.kind = "ValueError"
        /\ io = <<>>

C1_Witness ==
    /\ call.op = "move_to" /\ call.dir = "UP"
    /\ call.speed = 256 /\ call.position = 65536
    /\ outcome.kind = "ValueError"

(* C2: a read operation whose read returned fewer bytes than it asked for  *)
(* raises ProtocolDecodeError and returns no number.                       *)
C2_ShortReadRaises ==
    (Done /\ call.op \in ReadOps /\ Len(io) = 2 /\ Len(response) < io[2].size) =>
        outcome.kind = "ProtocolDecodeError"

\* The number of bytes of the frame of each method.
FrameLength(op) ==
    CASE op = "move_to" -> 5
      [] op = "set_active_of_en_pin" -> 4
      [] op \in {"set_subdivision", "move", "set_en_pin_status"} -> 3
      [] OTHER -> 2

(* C3: a call whose arguments are valid makes exactly one write, of the    *)
(* whole frame, and then exactly one read, and nothing more, however short *)
(* the reply; while it is blocked in the read it has made just the write.  *)
C3_OneExchange ==
    /\ pc = "read" =>
          /\ ArgumentsValid
          /\ Len(io) = 1 /\ io[1].kind = "write"
    /\ (Done /\ ArgumentsValid) =>
          /\ Len(io) = 2
          /\ io[1].kind = "write" /\ Len(io[1].data) = FrameLength(call.op)
          /\ io[2].kind = "read"
          /\ outcome.kind # "pending"
    /\ (Done /\ ~ArgumentsValid) => io = <<>>

C3_Witness ==
    /\ Done /\ call.op = "set_subdivision" /\ call.arg = 8
    /\ Len(io) = 2 /\ io[1].kind = "write" /\ io[2].kind = "read"
    /\ response = <<>>

\* The frame of the call, written out byte by byte.
Opcode(op) ==
    CASE op = "get_encoder_value" -> 48
      [] op = "read_pulses_received" -> 51
      [] op = "read_motor_shaft_angle" -> 54
      [] op = "read_motor_shaft_error_angle" -> 57
      [] op = "read_motor_shaft_status" -> 62
      [] op = "set_subdivision" -> 132
      [] op = "set_active_of_en_pin" -> 133
      [] op = "set_en_pin_status" -> 243
      [] op = "move" -> 246
      [] op = "stop" -> 247
      [] op = "move_to" -> 253

SpeedByte(dir, speed) == IF dir = "CW" THEN speed + 128 ELSE speed

Payload(c) ==
    CASE c.op = "move_to" ->
            <<SpeedByte(c.dir, c.speed), c.position \div 256, c.position % 256>>
      [] c.op = "move" -> <<SpeedByte(c.dir, c.speed)>>
      [] c.op \in ArgOps -> <<c.arg>>
      [] OTHER -> <<>>

\* The arguments are in range: a speed of 0..0x7F on top of ArgumentsValid.
ArgumentsInRange == ArgumentsValid /\ (call.op \in MoveOps => call.speed \in 0..127)

(* C4: the bytes written are address, opcode, payload (multi-byte fields   *)
(* most significant byte first), followed by one more byte, the sum of the *)
(* bytes before it modulo 256, exactly when the opcode is 0x85; at address *)
(* 0xE0 move_to('CW', 0x70, 0x0080) writes E0 FD F0 00 80, stop() writes   *)
(* E0 F7 and set_subdivision(0x08) writes E0 84 08.                        *)
C4_FrameLayout ==
    \A i \in IoOfKind("write") :
       LET data == io[i].data
           body == <<self.address, Opcode(call.op)>> \o Payload(call)
       IN  ArgumentsInRange =>
              /\ Opcode(call.op) # 133 => data = body
              /\ Opcode(call.op) = 133 =>
                    /\ Len(data) = Len(body) + 1
                    /\ SubSeq(data, 1, Len(body)) = body
                    /\ data[Len(data)] = (self.address + 133 + call.arg) % 256
              /\ (/\ self.address = 224 /\ call.op = "move_to" /\ call.dir = "CW"
                  /\ call.speed = 112 /\ call.position = 128)
                    => data = <<224, 253, 240, 0, 128>>
              /\ (self.address = 224 /\ call.op = "stop") => data = <<224, 247>>
              /\ (self.address = 224 /\ call.op = "set_subdivision" /\ call.arg = 8)
                    => data = <<224, 132, 8>>

C4_Witness ==
    /\ self.address = 224 /\ call.op = "move_to" /\ call.dir = "CW"
    /\ call.speed = 112 /\ call.position = 128
    /\ io # <<>> /\ io[1].kind = "write" /\ io[1].data = <<224, 253, 240, 0, 128>>

\* The reply length the table gives each opcode, with the entry of 0x85 as a
\* parameter.
ReplyLength(opcode, of85) ==
    CASE opcode \in {51, 54} -> 5
      [] opcode \in {48, 57, 243} -> 3
      [] opcode \in {62, 132, 246, 247, 253} -> 2
      [] opcode = 133 -> of85

(* C5 as stated: every read asks for the reply length of the table, which  *)
(* is 2 bytes for opcode 0x85.                                             *)
C5_ReplyLengthsAsClaimed ==
    \A i \in IoOfKind("read") : io[i].size = ReplyLength(io[1].data[2], 2)

(* C5 as amended: every read asks for 3 bytes for opcode 0x85 (set EN-pin  *)
(* active level), and for the other opcodes 0x30 -> 3, 0x33 -> 5,          *)
(* 0x36 -> 5, 0x39 -> 3, 0x3E -> 2, 0x84 -> 2, 0xF3 -> 3, 0xF6 -> 2,       *)
(* 0xF7 -> 2, 0xFD -> 2.                                                   *)
C5_ReplyLengths ==
    \A i \in IoOfKind("read") :
       /\ io[1].kind = "write"
       /\ io[i].size = ReplyLength(io[1].data[2], 3)

C5_Witness ==
    /\ Done /\ call.op = "set_active_of_en_pin"
    /\ Len(io) = 2 /\ io[1].data[2] = 133 /\ io[2].kind = "read" /\ io[2].size = 3

\* The returned integer, when it fits 32 bits.
Value == outcome.hi * 65536 + outcome.lo

(* C6: of a reply of full length byte 0 is ignored and the other bytes are *)
(* read most significant first: read_pulses_received as a signed 32-bit    *)
(* value, read_motor_shaft_angle as an unsigned 32-bit one,                *)
(* read_motor_shaft_error_angle as a signed 16-bit one; E0 FF FF FF F0 is  *)
(* -16 for the pulses and 4294967280 = 65535 * 65536 + 65520 for the       *)
(* angle, and E0 FF 00 is -256 for the error angle.                        *)
C6_Decoding ==
    LET r == response
    IN  /\ (Done /\ call.op = "read_pulses_received" /\ Len(r) = 5) =>
              /\ outcome.kind = "int"
              /\ outcome.lo = r[4] * 256 + r[5]
              /\ outcome.hi \in -32768..32767
              /\ (outcome.hi - (r[2] * 256 + r[3])) % 65536 = 0
              /\ r[2] = 255 /\ r[3] = 255 /\ r[4] = 255 /\ r[5] = 240 => Value = -16
        /\ (Done /\ call.op = "read_motor_shaft_angle" /\ Len(r) = 5) =>
              /\ outcome.kind = "int"
              /\ outcome.lo = r[4] * 256 + r[5]
              /\ outcome.hi = r[2] * 256 + r[3]
              /\ r[2] = 255 /\ r[3] = 255 /\ r[4] = 255 /\ r[5] = 240 =>
                    outcome.hi = 65535 /\ outcome.lo = 65520
        /\ (Done /\ call.op = "read_motor_shaft_error_angle" /\ Len(r) = 3) =>
              /\ outcome.kind = "int"
              /\ outcome.lo \in 0..65535 /\ outcome.hi \in {-1, 0}
              /\ Value \in -32768..32767
              /\ (Value - (r[2] * 256 + r[3])) % 65536 = 0
              /\ r[2] = 255 /\ r[3] = 0 => Value = -256

C6_Witness ==
    /\ Done /\ call.op = "read_pulses_received"
    /\ response = <<224, 255, 255, 255, 240>>
    /\ outcome.kind = "int" /\ outcome.hi = -1 /\ outcome.lo = 65520

(* C7: for a direction of CW or CCW and a speed of 0..0x7F, the speed byte *)
(* written by move and by move_to is speed | 0x80 for CW and the speed     *)
(* itself, bit 0x80 clear, for CCW.                                        *)
C7_SpeedByte ==
    \A i \in IoOfKind("write") :
       (call.op \in MoveOps /\ call.dir \in {"CW", "CCW"} /\ call.speed \in 0..127) =>
          /\ call.dir = "CW" => io[i].data[3] = call.speed + 128
          /\ call.dir = "CCW" => io[i].data[3] = call.speed /\ io[i].data[3] < 128

C7_Witness ==
    /\ Done /\ call.op = "move" /\ call.dir = "CW" /\ call.speed = 127
    /\ Len(io) = 2 /\ io[1].data[3] = 255

(* C8: when __init__ returns a link its port is open; when the port cannot *)
(* be opened __init__ raises instead.                                      *)
C8_ConstructionOpensOrFails ==
    [][(obj = "unborn" /\ obj' = "live") => ser'.is_open]_vars

(* C9: two stop() calls in a row write the same frame, each in its own     *)
(* write-then-read exchange; no command or read changes the link's fields  *)
(* or its port's open flag; and the frame a call writes is the one its     *)
(* arguments give with the address the link was constructed with.          *)
C9_StopTwiceAndNoStateChange ==
    /\ [](\A i \in IoOfKind("write") :
             /\ io[i].data[1] = self.address
             /\ ArgumentsInRange =>
                   SubSeq(io[i].data, 1, 2 + Len(Payload(call)))
                      = <<self.address, Opcode(call.op)>> \o Payload(call))
    /\ []((Done /\ prev = "stop" /\ call.op = "stop") =>
             io = <<WriteCall(<<self.address, 247>>, TRUE), ReadCall(2, TRUE)>>)
    /\ [][/\ self' = self
          /\ ser' = ser
          /\ (call.op = "stop" /\ call'.op = "stop" /\ pc = "idle" /\ pc' = "read") =>
                /\ Len(io) = 2 /\ io[1].kind = "write" /\ io[2].kind = "read"
                /\ io' = <<io[1]>>]_vars

C9_Witness ==
    /\ Done /\ prev = "stop" /\ call.op = "stop"
    /\ Len(io) = 2 /\ io[1].data = <<self.address, 247>> /\ io[2].kind = "read"

(* C10: on a link constructed on a named port, whose port only            *)
(* disconnect() can have closed, no write and no read is made on the       *)
(* transport while it is closed.                                           *)
C10_NoIoOnClosedPort ==
    self.port # PortNone => \A i \in DOMAIN io : io[i].open

(* C11: at most one request is in flight on a link: with two threads       *)
(* calling its methods, no frame is written between another thread's       *)
(* write and the return of that thread's read, and the bytes a read        *)
(* returns are all from the reply to the frame its own call wrote.         *)
C11_OneRequestInFlight ==
    /\ Cardinality({t \in Threads : thread[t].pc = "read"}) <= 1
    /\ \A t \in Threads : \A i \in DOMAIN thread[t].response :
          /\ thread[t].response[i].thread = t
          /\ thread[t].response[i].call = thread[t].calls

====
